---- MODULE Spec2Model ----
(***************************************************************************)
(* Model of pkg/message/header.go: GetHeader (header builder), parseHeader *)
(* (header parser) and sanitizeAddressList (address sanitizer).            *)
(*                                                                         *)
(* A Go string is a sequence of one-character strings (a few multi-byte    *)
(* runs that no scan looks into are kept as one element).  Indexes are     *)
(* 0-based as in Go; -1 is "not found".                                    *)
(***************************************************************************)
EXTENDS Integers, Sequences, FiniteSets, TLC

VARIABLES
    heap,       \* the allocated header maps: heap[r] is the map behind reference r
    msg,        \* the pmapi.Message handed to GetHeader
    pre,        \* msg.Header as it was when the call started (history)
    res,        \* the reference GetHeader returned (NIL before the call)
    bpc,        \* position of the caller of GetHeader
    san,        \* locals of the running sanitizeAddressList call
    ph          \* input and result of the parseHeader call

vars == <<heap, msg, pre, res, bpc, san, ph>>

(***************************************************************************)
(* strings                                                                 *)
(***************************************************************************)
NotFound == -1

\* strings.Index(s, c) for a one-character c
Index(s, c) ==
    IF \E i \in 1..Len(s) : s[i] = c
    THEN (CHOOSE i \in 1..Len(s) : s[i] = c /\ \A j \in 1..(i - 1) : s[j] /= c) - 1
    ELSE NotFound

\* strings.LastIndex(s, c) for a one-character c
LastIndex(s, c) ==
    IF \E i \in 1..Len(s) : s[i] = c
    THEN (CHOOSE i \in 1..Len(s) : s[i] = c /\ \A j \in (i + 1)..Len(s) : s[j] /= c) - 1
    ELSE NotFound

\* s[from:] and s[:to] with 0-based Go indexes that are in range
SliceFrom(s, from) == SubSeq(s, from + 1, Len(s))
SliceTo(s, to) == SubSeq(s, 1, to)

\* strings.Contains(s, sub)
Contains(s, sub) ==
    \E i \in 1..(Len(s) - Len(sub) + 1) : SubSeq(s, i, i + Len(sub) - 1) = sub

RECURSIVE Join(_, _)
\* strings.Join(list, sep)
Join(list, sep) ==
    IF Len(list) = 0 THEN << >>
    ELSE IF Len(list) = 1 THEN list[1]
    ELSE list[1] \o sep \o Join(Tail(list), sep)

(***************************************************************************)
(* textproto.MIMEHeader: key -> list of values                             *)
(***************************************************************************)
NIL == 0

EmptyHeader == [k \in {} |-> << >>]

\* textproto.CanonicalMIMEHeaderKey on the keys this file uses; all but one
\* are already canonical
CanonicalKey(k) ==
    IF k = "X-Pm-ConversationID-Id" THEN "X-Pm-Conversationid-Id" ELSE k

\* MIMEHeader.Get: the first value of the key, "" when there is none
Get(h, k) ==
    LET ck == CanonicalKey(k)
    IN  IF ck \in DOMAIN h /\ Len(h[ck]) > 0 THEN h[ck][1] ELSE << >>

\* MIMEHeader.Set: the key's values become the one value v
Set(h, k, v) ==
    LET ck == CanonicalKey(k)
    IN  [x \in (DOMAIN h) \cup {ck} |-> IF x = ck THEN <<v>> ELSE h[x]]

\* h.Set(k, v) through the reference r
HSet(hp, r, k, v) == [hp EXCEPT ![r] = Set(hp[r], k, v)]

\* msg.Header read through the Message: a nil map reads as an empty one
MsgHeader(hp, m) == IF m.Header = NIL THEN EmptyHeader ELSE hp[m.Header]

(***************************************************************************)
(* collaborators of the builder                                            *)
(***************************************************************************)
NonASCII == {"é"}

\* pmmime.EncodeHeader: text of ASCII characters is returned as it is, any
\* other text becomes one RFC 2047 encoded word
EncodeHeader(s) ==
    IF \A i \in 1..Len(s) : s[i] \notin NonASCII
    THEN s
    ELSE <<"=?utf-8?q?">>
         \o [i \in 1..Len(s) |-> IF s[i] \in NonASCII THEN "=C3=A9" ELSE s[i]]
         \o <<"?=">>

\* mail.Address.String(): <address>, preceded by the quoted name if there is one
AddressString(a) ==
    IF a.Name = << >>
    THEN <<"<">> \o a.Address \o <<">">>
    ELSE <<"\"">> \o a.Name \o <<"\"", " ", "<">> \o a.Address \o <<">">>

\* formatAddressList: the addresses' String() forms joined by ", "
formatAddressList(addrs) ==
    Join([i \in 1..Len(addrs) |-> AddressString(addrs[i])], <<",", " ">>)

Digits == <<"1", "2", "3", "4", "5", "6", "7", "8", "9">>

\* time.Unix(t, 0).Format(time.RFC1123Z), for t > 0
FormatRFC1123Z(t) == <<"D", Digits[t]>>

\* The Date value that parses to the zero time.Time (year 1), and a Date value
\* that parses to a time after every Message.Time of the model
ZeroDate == <<"D", "0">>
LateDate == <<"D", "9">>

\* mail.Header.Date(): ErrHeaderNotPresent for no value, a parse error for a
\* value that is no date, else the time (unix is meaningless when zero)
HeaderDate(h) ==
    LET v == Get(h, "Date")
    IN  IF v = << >> THEN [err |-> "HeaderNotPresent", zero |-> FALSE, unix |-> 0]
        ELSE IF v = ZeroDate THEN [err |-> "nil", zero |-> TRUE, unix |-> 0]
        ELSE IF Len(v) = 2 /\ v[1] = "D" /\ \E d \in 1..Len(Digits) : Digits[d] = v[2]
        THEN [err |-> "nil", zero |-> FALSE,
              unix |-> CHOOSE d \in 1..Len(Digits) : Digits[d] = v[2]]
        ELSE [err |-> "ParseError", zero |-> FALSE, unix |-> 0]

InternalIDDomain == <<"protonmail.internalid">>
ConversationIDDomain == <<"protonmail.conversationid">>

\* "<" + id + "@" + domain + ">"
IdToken(id, domain) == <<"<">> \o id \o <<"@">> \o domain \o <<">">>

(***************************************************************************)
(* GetHeader                                                               *)
(***************************************************************************)
\* h := make(textproto.MIMEHeader); if msg.Header != nil { h = msg.Header }:
\* the Message's own map when it has one (a conversion of a Go map shares it),
\* else a map newly allocated.  Gives the heap and the reference h.
StartHeader(hp, m) ==
    IF m.Header /= NIL
    THEN [heap |-> hp, h |-> m.Header]
    ELSE [heap |-> Append(hp, EmptyHeader), h |-> Len(hp) + 1]

\* SetEnvelope with the To list written even when it is empty
SetEnvelope_unguardedTo(hp, r, m) ==
    LET h1 == HSet(hp, r, "Subject", EncodeHeader(m.Subject))
        h2 == IF m.Sender /= << >>
              THEN HSet(h1, r, "From", EncodeHeader(AddressString(m.Sender[1])))
              ELSE h1
        h3 == IF Len(m.ReplyTos.list) > 0
              THEN HSet(h2, r, "Reply-To", EncodeHeader(formatAddressList(m.ReplyTos.list)))
              ELSE h2
        h4 == HSet(h3, r, "To", EncodeHeader(formatAddressList(m.ToList.list)))
        h5 == IF Len(m.CCList.list) > 0
              THEN HSet(h4, r, "Cc", EncodeHeader(formatAddressList(m.CCList.list)))
              ELSE h4
    IN  IF Len(m.BCCList.list) > 0
        THEN HSet(h5, r, "Bcc", EncodeHeader(formatAddressList(m.BCCList.list)))
        ELSE h5

\* "Add or rewrite fields."
SetEnvelope(hp, r, m) ==
    LET h1 == HSet(hp, r, "Subject", EncodeHeader(m.Subject))
        h2 == IF m.Sender /= << >>
              THEN HSet(h1, r, "From", EncodeHeader(AddressString(m.Sender[1])))
              ELSE h1
        h3 == IF Len(m.ReplyTos.list) > 0
              THEN HSet(h2, r, "Reply-To", EncodeHeader(formatAddressList(m.ReplyTos.list)))
              ELSE h2
        h4 == IF Len(m.ToList.list) > 0
              THEN HSet(h3, r, "To", EncodeHeader(formatAddressList(m.ToList.list)))
              ELSE h3
        h5 == IF Len(m.CCList.list) > 0
              THEN HSet(h4, r, "Cc", EncodeHeader(formatAddressList(m.CCList.list)))
              ELSE h4
    IN  IF Len(m.BCCList.list) > 0
        THEN HSet(h5, r, "Bcc", EncodeHeader(formatAddressList(m.BCCList.list)))
        ELSE h5

\* SetDates with Date rewritten whenever Time > 0
SetDates_alwaysFix(hp, r, m) ==
    IF m.Time > 0
    THEN HSet(HSet(hp, r, "X-Pm-Date", FormatRFC1123Z(m.Time)),
              r, "Date", FormatRFC1123Z(m.Time))
    ELSE hp

\* "Add or rewrite date related fields."
SetDates(hp, r, m) ==
    IF m.Time > 0
    THEN LET h1 == HSet(hp, r, "X-Pm-Date", FormatRFC1123Z(m.Time))
             d == HeaderDate(MsgHeader(h1, m))
         IN  IF d.err /= "nil" \/ d.zero
             THEN HSet(h1, r, "Date", FormatRFC1123Z(m.Time))
             ELSE h1
    ELSE hp

\* if msg.ExternalID != "" { ... }
SetExternalId(hp, r, m) ==
    IF m.ExternalID /= << >>
    THEN LET h1 == HSet(hp, r, "X-Pm-External-Id", <<"<">> \o m.ExternalID \o <<">">>)
         IN  IF Get(h1[r], "Message-Id") = << >>
             THEN HSet(h1, r, "Message-Id", <<"<">> \o m.ExternalID \o <<">">>)
             ELSE h1
    ELSE hp

\* SetInternalId with the reference appended without looking for it first
SetInternalId_alwaysAppend(hp, r, m) ==
    IF m.ID /= << >>
    THEN LET h1 == IF Get(hp[r], "Message-Id") = << >>
                   THEN HSet(hp, r, "Message-Id", IdToken(m.ID, InternalIDDomain))
                   ELSE hp
             h2 == HSet(h1, r, "X-Pm-Internal-Id", m.ID)
         IN  HSet(h2, r, "References",
                  Get(h2[r], "References") \o <<" ">> \o IdToken(m.ID, InternalIDDomain))
    ELSE hp

\* if msg.ID != "" { ... }
SetInternalId(hp, r, m) ==
    IF m.ID /= << >>
    THEN LET h1 == IF Get(hp[r], "Message-Id") = << >>
                   THEN HSet(hp, r, "Message-Id", IdToken(m.ID, InternalIDDomain))
                   ELSE hp
             h2 == HSet(h1, r, "X-Pm-Internal-Id", m.ID)
             references == Get(h2[r], "References")
         IN  IF ~Contains(references, m.ID)
             THEN HSet(h2, r, "References",
                       references \o <<" ">> \o IdToken(m.ID, InternalIDDomain))
             ELSE h2
    ELSE hp

\* if msg.ConversationID != "" { ... }
SetConversationId(hp, r, m) ==
    IF m.ConversationID /= << >>
    THEN LET h1 == HSet(hp, r, "X-Pm-ConversationID-Id", m.ConversationID)
             references == Get(h1[r], "References")
         IN  IF ~Contains(references, m.ConversationID)
             THEN HSet(h1, r, "References",
                       references \o <<" ">> \o IdToken(m.ConversationID, ConversationIDDomain))
             ELSE h1
    ELSE hp

\* GetHeader(msg): the heap after the call and the reference returned
GetHeader(hp, m) ==
    LET s == StartHeader(hp, m)
        r == s.h
        h1 == SetEnvelope(s.heap, r, m)
        h2 == SetDates(h1, r, m)
        h3 == SetExternalId(h2, r, m)
        h4 == SetInternalId(h3, r, m)
        h5 == SetConversationId(h4, r, m)
    IN  [heap |-> h5, h |-> r]

(***************************************************************************)
(* collaborators of the parser                                             *)
(*                                                                         *)
(* Characters of an address field: "a", "b" are mailboxes (a@example.com), *)
(* "N" a display-name word, "=" an RFC 2047 encoded word that decodes to   *)
(* the word "N", "?" a malformed encoded word, "#" a byte the address      *)
(* grammar rejects, "G" an empty group (undisclosed-recipients:;).         *)
(***************************************************************************)
Mailboxes == {"a", "b"}
NameChars == {"N", "="}

\* a []*mail.Address value: nil, or the list
NilAddrs == [nil |-> TRUE, list |-> << >>]
Addrs(l) == [nil |-> FALSE, list |-> l]

\* pmmime.DecodeHeader: fails on a malformed encoded word, else every encoded
\* word is replaced by its text
DecodeHeader(raw) ==
    IF \E i \in 1..Len(raw) : raw[i] = "?"
    THEN [decoded |-> << >>, err |-> "DecodeFailure"]
    ELSE [decoded |-> [i \in 1..Len(raw) |-> IF raw[i] = "=" THEN "N" ELSE raw[i]],
          err |-> "nil"]

RECURSIVE parseAddressComment(_)
\* parseAddressComment: the text without its parenthesized comments
parseAddressComment(s) ==
    LET o == Index(s, "(")
    IN  IF o = NotFound THEN s
        ELSE LET rest == SliceFrom(s, o)
                 c == Index(rest, ")")
             IN  IF c = NotFound THEN s
                 ELSE SliceTo(s, o) \o parseAddressComment(SliceFrom(rest, c + 1))

RECURSIVE SplitList(_)
\* the items of an address list, split at its commas
SplitList(s) ==
    LET c == Index(s, ",")
    IN  IF c = NotFound THEN <<s>>
        ELSE <<SliceTo(s, c)>> \o SplitList(SliceFrom(s, c + 1))

\* s without its white space
Unspaced(s) == SelectSeq(s, LAMBDA ch : ch /= " ")

\* one item of an address list: a mailbox, [display-name] "<" mailbox ">",
\* or an empty group; ok = FALSE for anything else
ParseAddress(item) ==
    LET n == Len(item)
    IN  IF n = 1 /\ item[1] \in Mailboxes
        THEN [ok |-> TRUE, list |-> <<[Name |-> << >>, Address |-> item]>>]
        ELSE IF n = 1 /\ item[1] = "G"
        THEN [ok |-> TRUE, list |-> << >>]
        ELSE IF /\ n >= 3
                /\ item[n] = ">" /\ item[n - 1] \in Mailboxes /\ item[n - 2] = "<"
                /\ \A i \in 1..(n - 3) : item[i] \in NameChars
        THEN [ok |-> TRUE,
              list |-> <<[Name |-> [i \in 1..(n - 3) |-> "N"],
                          Address |-> <<item[n - 1]>>]>>]
        ELSE [ok |-> FALSE, list |-> << >>]

RECURSIVE ConcatAll(_)
ConcatAll(ls) == IF Len(ls) = 0 THEN << >> ELSE ls[1] \o ConcatAll(Tail(ls))

\* mail.ParseAddressList: every item must parse; the list is nil when no item
\* gave an address
ParseAddressList(s) ==
    LET items == SplitList(Unspaced(s))
        parsed == [i \in 1..Len(items) |-> ParseAddress(items[i])]
        all == ConcatAll([i \in 1..Len(items) |-> parsed[i].list])
    IN  IF \E i \in 1..Len(items) : ~parsed[i].ok
        THEN [addrs |-> NilAddrs, err |-> "AddressParseFailure"]
        ELSE [addrs |-> IF all = << >> THEN NilAddrs ELSE Addrs(all), err |-> "nil"]

(***************************************************************************)
(* sanitizeAddressList                                                     *)
(***************************************************************************)
\* the locals of a call; pc is "idle" (not called), "loop" (at the head of the
\* bracket loop) or "done" (returned, or panicked)
SanIdle ==
    [pc |-> "idle", raw |-> << >>, addrStr |-> << >>, open |-> NotFound,
     last |-> NotFound, close |-> NotFound, addrList |-> << >>,
     addrs |-> NilAddrs, err |-> "nil", called2 |-> FALSE, arg2 |-> << >>,
     panic |-> FALSE]

\* return addrs, err
SanReturn(s, addrs, err) == [s EXCEPT !.pc = "done", !.addrs = addrs, !.err = err]

\* NormalizeNil left out: a nil list stays nil
NormalizeNil_none(addrs) == addrs

\* if addrs == nil { addrs = []*mail.Address{} }
NormalizeNil(addrs) == IF addrs.nil THEN Addrs(<< >>) ELSE addrs

\* FallbackSource reading the decoded text: addrStr := decoded
FallbackSource_decoded(raw, decoded) == decoded

\* addrStr := h.Get(field): the text the bracket scan reads
FallbackSource(raw, decoded) == raw

\* first < 0 || last < 0 || first >= last
NoBrackets(first, last) == first < 0 \/ last < 0 \/ first >= last

\* SanStart with the strict parse's error lost (err shadowed inside a block),
\* so that the function's own err is still nil afterwards
SanStart_shadowedErr(raw) ==
    LET s0 == [SanIdle EXCEPT !.raw = raw]
    IN  IF raw = << >> THEN SanReturn(s0, NilAddrs, "FieldNotPresent")
        ELSE LET d == DecodeHeader(raw)
             IN  IF d.err /= "nil" THEN SanReturn(s0, NilAddrs, d.err)
                 ELSE LET p == ParseAddressList(parseAddressComment(d.decoded))
                          addrStr == FallbackSource(raw, d.decoded)
                          first == Index(addrStr, "<")
                          last == LastIndex(addrStr, ">")
                      IN  IF p.err = "nil"
                          THEN SanReturn(s0, NormalizeNil(p.addrs), "nil")
                          ELSE IF NoBrackets(first, last)
                          THEN SanReturn(s0, p.addrs, "nil")
                          ELSE [s0 EXCEPT !.pc = "loop", !.addrs = p.addrs,
                                          !.err = "nil", !.addrStr = addrStr,
                                          !.open = first, !.last = last]

\* the call up to the head of the bracket loop
SanStart(raw) ==
    LET s0 == [SanIdle EXCEPT !.raw = raw]
    IN  IF raw = << >> THEN SanReturn(s0, NilAddrs, "FieldNotPresent")
        ELSE LET d == DecodeHeader(raw)
             IN  IF d.err /= "nil" THEN SanReturn(s0, NilAddrs, d.err)
                 ELSE LET p == ParseAddressList(parseAddressComment(d.decoded))
                          addrStr == FallbackSource(raw, d.decoded)
                          first == Index(addrStr, "<")
                          last == LastIndex(addrStr, ">")
                      IN  IF p.err = "nil"
                          THEN SanReturn(s0, NormalizeNil(p.addrs), "nil")
                          ELSE IF NoBrackets(first, last)
                          THEN SanReturn(s0, p.addrs, p.err)
                          ELSE [s0 EXCEPT !.pc = "loop", !.addrs = p.addrs,
                                          !.err = p.err, !.addrStr = addrStr,
                                          !.open = first, !.last = last]

\* LoopCond without its look at last: for 0 <= open
LoopCond_noLast(s) == 0 <= s.open

\* for open < last && 0 <= open
LoopCond(s) == s.open < s.last /\ 0 <= s.open

\* LoopBody with each span put in front of the list
LoopBody_prepend(s) ==
    IF s.open < 0 \/ s.open > Len(s.addrStr)
    THEN [s EXCEPT !.pc = "done", !.panic = TRUE]
    ELSE LET a1 == SliceFrom(s.addrStr, s.open)
             close == Index(a1, ">")
         IN  IF close < 0 \/ close > Len(a1)
             THEN [s EXCEPT !.pc = "done", !.panic = TRUE, !.addrStr = a1,
                            !.close = close]
             ELSE LET a2 == SliceFrom(a1, close)
                  IN  [s EXCEPT !.addrStr = a2,
                                !.close = close,
                                !.addrList = <<SliceTo(a1, close + 1)>> \o @,
                                !.open = Index(a2, "<"),
                                !.last = LastIndex(a2, ">")]

\* one pass of the loop body; a slice bound out of range panics
LoopBody(s) ==
    IF s.open < 0 \/ s.open > Len(s.addrStr)
    THEN [s EXCEPT !.pc = "done", !.panic = TRUE]
    ELSE LET a1 == SliceFrom(s.addrStr, s.open)
             close == Index(a1, ">")
         IN  IF close < 0 \/ close > Len(a1)
             THEN [s EXCEPT !.pc = "done", !.panic = TRUE, !.addrStr = a1,
                            !.close = close]
             ELSE LET a2 == SliceFrom(a1, close)
                  IN  [s EXCEPT !.addrStr = a2,
                                !.close = close,
                                !.addrList = Append(@, SliceTo(a1, close + 1)),
                                !.open = Index(a2, "<"),
                                !.last = LastIndex(a2, ">")]

\* addrStr = strings.Join(addrList, ", "); return mail.ParseAddressList(addrStr)
SanFinish(s) ==
    LET joined == Join(s.addrList, <<",", " ">>)
        p == ParseAddressList(joined)
    IN  [s EXCEPT !.pc = "done", !.addrStr = joined, !.called2 = TRUE,
                  !.arg2 = joined, !.addrs = p.addrs, !.err = p.err]

RECURSIVE SanLoop(_)
\* the loop run to its end
SanLoop(s) ==
    IF s.pc /= "loop" THEN s
    ELSE IF LoopCond(s) THEN SanLoop(LoopBody(s))
    ELSE SanFinish(s)

\* sanitizeAddressList(h, field), as one call
sanitizeAddressList(h, field) == SanLoop(SanStart(Get(h, field)))

(***************************************************************************)
(* parseHeader                                                             *)
(***************************************************************************)
\* pmapi.NewMessage(): the To, Cc and Bcc lists are empty and not nil.  Sender
\* is a sequence of at most one address (empty for a nil pointer).
NewMessage ==
    [ID |-> << >>, ExternalID |-> << >>, ConversationID |-> << >>,
     Subject |-> << >>, Sender |-> << >>, ReplyTos |-> NilAddrs,
     ToList |-> Addrs(<< >>), CCList |-> Addrs(<< >>), BCCList |-> Addrs(<< >>),
     Time |-> 0, Header |-> NIL]

\* parseHeader giving up at From: the sanitizer's error is returned, unless
\* the field is only absent, and the later fields are not read
parseHeader_failFast(hp, r) ==
    LET h == hp[r]
        subject == DecodeHeader(Get(h, "Subject"))
        from == sanitizeAddressList(h, "From")
        replyTo == sanitizeAddressList(h, "Reply-To")
        to == sanitizeAddressList(h, "To")
        cc == sanitizeAddressList(h, "Cc")
        bcc == sanitizeAddressList(h, "Bcc")
        t == HeaderDate(h)
        m == [NewMessage EXCEPT
                !.Subject = IF subject.err = "nil" THEN subject.decoded ELSE @,
                !.Sender = IF from.err = "nil" /\ Len(from.addrs.list) > 0
                           THEN <<from.addrs.list[1]>> ELSE @,
                !.ReplyTos = IF replyTo.err = "nil" /\ Len(replyTo.addrs.list) > 0
                             THEN replyTo.addrs ELSE @,
                !.ToList = IF to.err = "nil" THEN to.addrs ELSE @,
                !.CCList = IF cc.err = "nil" THEN cc.addrs ELSE @,
                !.BCCList = IF bcc.err = "nil" THEN bcc.addrs ELSE @,
                !.Time = IF t.err = "nil" /\ ~t.zero THEN t.unix ELSE 0,
                !.Header = r]
    IN  IF from.err \notin {"nil", "FieldNotPresent"}
        THEN [pc |-> "done",
              m |-> [NewMessage EXCEPT
                       !.Subject = IF subject.err = "nil" THEN subject.decoded ELSE @],
              err |-> from.err, panic |-> from.panic]
        ELSE [pc |-> "done",
              m |-> m,
              err |-> "nil",
              panic |-> from.panic \/ replyTo.panic \/ to.panic \/ cc.panic \/ bcc.panic]

\* parseHeader(h), h being the reference r: the Message, the error returned
\* and whether a sanitizer call panicked on the way
parseHeader(hp, r) ==
    LET h == hp[r]
        subject == DecodeHeader(Get(h, "Subject"))
        from == sanitizeAddressList(h, "From")
        replyTo == sanitizeAddressList(h, "Reply-To")
        to == sanitizeAddressList(h, "To")
        cc == sanitizeAddressList(h, "Cc")
        bcc == sanitizeAddressList(h, "Bcc")
        t == HeaderDate(h)
        m == [NewMessage EXCEPT
                !.Subject = IF subject.err = "nil" THEN subject.decoded ELSE @,
                !.Sender = IF from.err = "nil" /\ Len(from.addrs.list) > 0
                           THEN <<from.addrs.list[1]>> ELSE @,
                !.ReplyTos = IF replyTo.err = "nil" /\ Len(replyTo.addrs.list) > 0
                             THEN replyTo.addrs ELSE @,
                !.ToList = IF to.err = "nil" THEN to.addrs ELSE @,
                !.CCList = IF cc.err = "nil" THEN cc.addrs ELSE @,
                !.BCCList = IF bcc.err = "nil" THEN bcc.addrs ELSE @,
                !.Time = IF t.err = "nil" /\ ~t.zero THEN t.unix ELSE 0,
                !.Header = r]
    IN  [pc |-> "done",
         m |-> m,
         err |-> "nil",
         panic |-> from.panic \/ replyTo.panic \/ to.panic \/ cc.panic \/ bcc.panic]

PhIdle == [pc |-> "idle", m |-> NewMessage, err |-> "nil", panic |-> FALSE]

(***************************************************************************)
(* inputs                                                                  *)
(***************************************************************************)
MaxTime == 2
MaxLen == 4

AddrA == [Name |-> << >>, Address |-> <<"a">>]
AddrB == [Name |-> <<"N">>, Address |-> <<"b">>]

Subjects == {<< >>, <<"s", "é">>}
Senders == {<< >>, <<AddrB>>}
Times == (-1)..MaxTime
IDs == {<< >>, <<"a">>}
ExternalIDs == {<< >>, <<"e">>}
ConversationIDs == {<< >>, <<"c">>}

\* pre-existing Date values: none, no date, the zero time, a time
OldDates == {<< >>, <<"x">>, ZeroDate, LateDate}

\* pre-existing References values: none, another message, the token of ID "a"
\* once and twice, and a token that only contains "a"
OldReferences ==
    {<< >>,
     <<"<", "z", "@", "o", ">">>,
     IdToken(<<"a">>, InternalIDDomain),
     IdToken(<<"a">>, InternalIDDomain) \o <<" ">> \o IdToken(<<"a">>, InternalIDDomain),
     <<"<", "b", "a", "@", "o", ">">>}

\* a header map of the given fields that leaves out those without a value
MakeHeader(fields) ==
    [k \in {x \in DOMAIN fields : fields[x] /= << >>} |-> fields[k]]

One(v) == IF v = << >> THEN << >> ELSE <<v>>

\* the Message.Header maps GetHeader is given: with or without the envelope
\* fields and two custom fields (one of two values), and any Date and References
OldHeaders ==
    { MakeHeader(
        IF full
        THEN [ k \in {"Subject", "From", "Reply-To", "To", "Cc", "Bcc", "Message-Id",
                      "X-Custom", "Received", "Date", "References"} |->
               CASE k = "Date" -> One(d)
                 [] k = "References" -> One(rf)
                 [] k = "Received" -> << <<"r", "1">>, <<"r", "2">> >>
                 [] OTHER -> << <<"o", "l", "d">> >> ]
        ELSE [ k \in {"Date", "References"} |->
               IF k = "Date" THEN One(d) ELSE One(rf) ])
      : full \in BOOLEAN, d \in OldDates, rf \in OldReferences }

Messages ==
    { [ID |-> id, ExternalID |-> ext, ConversationID |-> conv,
       Subject |-> subj, Sender |-> snd, ReplyTos |-> rt,
       ToList |-> to, CCList |-> cc, BCCList |-> bcc,
       Time |-> t, Header |-> NIL]
      : id \in IDs, ext \in ExternalIDs, conv \in ConversationIDs,
        subj \in Subjects, snd \in Senders,
        rt \in {NilAddrs, Addrs(<<AddrB>>)},
        to \in {Addrs(<< >>), Addrs(<<AddrA, AddrB>>)},
        cc \in {Addrs(<< >>), Addrs(<<AddrA>>)},
        bcc \in {NilAddrs, Addrs(<<AddrA>>)},
        t \in Times }

RawChars == {"<", ">", "a", ",", "#", "=", "?", "G"}

\* every text of at most n characters of RawChars
RECURSIVE Texts(_)
Texts(n) ==
    IF n = 0 THEN {<< >>}
    ELSE LET shorter == Texts(n - 1)
         IN  shorter \cup {Append(t, c) : t \in {x \in shorter : Len(x) = n - 1}, c \in RawChars}

\* longer field values of interest: two named mailboxes, the same after a
\* malformed encoded word, after a rejected byte, comments, groups, nesting
LongRaws ==
    {<<"N", " ", "<", "a", ">", ",", " ", "N", " ", "<", "b", ">">>,
     <<"?", " ", "<", "a", ">", ",", " ", "N", " ", "<", "b", ">">>,
     <<"#", " ", "<", "a", ">", ",", " ", "#", " ", "<", "b", ">">>,
     <<"#", "<", "=", ">", "<", "b", ">">>,
     <<"a", "(", "N", ")", ",", "b">>,
     <<"G">>, <<"G", ",", "G">>, <<"#", "G", "<", "a", ">">>,
     <<"#", "<", "<", "a", ">", ">", "<", "b">>,
     <<">", "#", "<", "b", ">", "<", "a", ">", "<">>}

RawValues == Texts(MaxLen) \cup LongRaws

\* the values of an address field parseHeader is given: none, a malformed
\* encoded word, a rejected byte with and without bracketed mailboxes, two
\* mailboxes, an empty group
FieldRaws ==
    {<< >>,
     <<"?", "<", "a", ">">>,
     <<"#">>,
     <<"#", "<", "a", ">", ",", "<", "b", ">">>,
     <<"=", "<", "b", ">", ",", "a">>,
     <<"G">>}

ParsedSubjects == {<< >>, <<"=">>, <<"?">>}

(***************************************************************************)
(* the calls                                                               *)
(***************************************************************************)
NoSnapshot == [nil |-> TRUE, map |-> EmptyHeader]
Snapshot(hp, m) == [nil |-> m.Header = NIL, map |-> MsgHeader(hp, m)]

Init ==
    /\ heap = << >>
    /\ msg = NewMessage
    /\ pre = NoSnapshot
    /\ res = NIL
    /\ bpc = "idle"
    /\ san = SanIdle
    /\ ph = PhIdle

Idle == bpc = "idle" /\ san.pc = "idle" /\ ph.pc = "idle"

\* a caller builds the header of a Message whose Header is nil
CallGetHeaderNil ==
    /\ Idle
    /\ \E m \in Messages :
         LET g == GetHeader(<< >>, m)
         IN  /\ msg' = m
             /\ pre' = Snapshot(<< >>, m)
             /\ heap' = g.heap
             /\ res' = g.h
    /\ bpc' = "returned"
    /\ UNCHANGED <<san, ph>>

\* a caller builds the header of a Message that has a Header
CallGetHeader ==
    /\ Idle
    /\ \E m \in Messages, h \in OldHeaders :
         LET m1 == [m EXCEPT !.Header = 1]
             g == GetHeader(<<h>>, m1)
         IN  /\ msg' = m1
             /\ pre' = Snapshot(<<h>>, m1)
             /\ heap' = g.heap
             /\ res' = g.h
    /\ bpc' = "returned"
    /\ UNCHANGED <<san, ph>>

\* the caller builds the header again, of the Message with the first result as
\* its Header
CallGetHeaderAgain ==
    /\ bpc = "returned"
    /\ LET m1 == [msg EXCEPT !.Header = res]
           g == GetHeader(heap, m1)
       IN  /\ msg' = m1
           /\ pre' = Snapshot(heap, m1)
           /\ heap' = g.heap
           /\ res' = g.h
    /\ bpc' = "returned2"
    /\ UNCHANGED <<san, ph>>

\* the caller sets a field of its own in the header it was returned
SetOnResult ==
    /\ bpc = "returned"
    /\ heap' = HSet(heap, res, "X-Caller", <<"v">>)
    /\ bpc' = "modified"
    /\ UNCHANGED <<msg, pre, res, san, ph>>

\* a caller parses a header
CallParseHeader ==
    /\ Idle
    /\ \E subj \in ParsedSubjects, d \in OldDates,
          from \in FieldRaws, rt \in FieldRaws, to \in FieldRaws,
          cc \in FieldRaws, bcc \in FieldRaws :
         LET h == MakeHeader(
                    [k \in {"Subject", "From", "Reply-To", "To", "Cc", "Bcc", "Date"} |->
                       CASE k = "Subject" -> One(subj)
                         [] k = "From" -> One(from)
                         [] k = "Reply-To" -> One(rt)
                         [] k = "To" -> One(to)
                         [] k = "Cc" -> One(cc)
                         [] k = "Bcc" -> One(bcc)
                         [] OTHER -> One(d)])
         IN  /\ heap' = <<h>>
             /\ ph' = parseHeader(heap', 1)
    /\ UNCHANGED <<msg, pre, res, bpc, san>>

\* sanitizeAddressList is called on a field value and runs to the head of its
\* bracket loop, or returns before it
SanCall ==
    /\ Idle
    /\ \E raw \in RawValues : san' = SanStart(raw)
    /\ UNCHANGED <<heap, msg, pre, res, bpc, ph>>

\* one pass of the bracket loop
SanIter ==
    /\ san.pc = "loop"
    /\ LoopCond(san)
    /\ san' = LoopBody(san)
    /\ UNCHANGED <<heap, msg, pre, res, bpc, ph>>

\* the loop is left: join, parse, return
SanExit ==
    /\ san.pc = "loop"
    /\ ~LoopCond(san)
    /\ san' = SanFinish(san)
    /\ UNCHANGED <<heap, msg, pre, res, bpc, ph>>

NextGetHeader ==
    \/ CallGetHeaderNil
    \/ CallGetHeader
    \/ CallGetHeaderAgain
    \/ SetOnResult

NextParseHeader == CallParseHeader

NextSanitize ==
    \/ SanCall
    \/ SanIter
    \/ SanExit

\* the builder and its caller
SpecGetHeader == Init /\ [][NextGetHeader]_vars

\* the parser
SpecParseHeader == Init /\ [][NextParseHeader]_vars

\* one sanitizer call, step by step
SpecSanitize == Init /\ [][NextSanitize]_vars

\* a call that has started keeps running: nothing in it waits
SpecSanitizeLive == SpecSanitize /\ WF_vars(SanIter) /\ WF_vars(SanExit)

(***************************************************************************)
(* properties of GetHeader                                                 *)
(***************************************************************************)
Returned == bpc \in {"returned", "returned2"}

\* the values of key k in h, none when the key is absent
Entry(h, k) == IF k \in DOMAIN h THEN h[k] ELSE << >>

\* the fields GetHeader writes
NamedFields ==
    {"Subject", "From", "Reply-To", "To", "Cc", "Bcc", "Date", "X-Pm-Date",
     "X-Pm-External-Id", "Message-Id", "X-Pm-Internal-Id", "References",
     "X-Pm-Conversationid-Id"}

\* how many times tok occurs in s
Count(s, tok) ==
    Cardinality({i \in 1..(Len(s) - Len(tok) + 1) : SubSeq(s, i, i + Len(tok) - 1) = tok})

\* C1: after GetHeader(msg) returns, and after a later Set on its result,
\* msg.Header holds what it held before the call and the result is a mapping
\* other than msg.Header.
C1_NoSideEffect ==
    bpc \in {"returned", "modified"} =>
        /\ res /= msg.Header
        /\ Snapshot(heap, msg) = pre

\* C2 as stated: a pre-existing Subject, From, Reply-To, To, Cc or Bcc is kept
\* when the Message's own field is empty, and every custom field is kept.
C2_KeptWhenEmpty ==
    Returned =>
        LET h == heap[res]
            old == pre.map
            kept(k) == k \in DOMAIN old => Entry(h, k) = old[k]
        IN  /\ msg.Subject = << >> => kept("Subject")
            /\ msg.Sender = << >> => kept("From")
            /\ Len(msg.ReplyTos.list) = 0 => kept("Reply-To")
            /\ Len(msg.ToList.list) = 0 => kept("To")
            /\ Len(msg.CCList.list) = 0 => kept("Cc")
            /\ Len(msg.BCCList.list) = 0 => kept("Bcc")
            /\ \A k \in (DOMAIN old) \ NamedFields : kept(k)

\* C2 amended: Subject is always written, as the encoding of msg.Subject, an
\* empty one included; a pre-existing From, Reply-To, To, Cc or Bcc is kept
\* when the Message's own field is empty, and every custom field is kept.
C2_SubjectAlwaysWritten ==
    Returned =>
        LET h == heap[res]
            old == pre.map
            kept(k) == k \in DOMAIN old => Entry(h, k) = old[k]
        IN  /\ Entry(h, "Subject") = <<EncodeHeader(msg.Subject)>>
            /\ msg.Sender = << >> => kept("From")
            /\ Len(msg.ReplyTos.list) = 0 => kept("Reply-To")
            /\ Len(msg.ToList.list) = 0 => kept("To")
            /\ Len(msg.CCList.list) = 0 => kept("Cc")
            /\ Len(msg.BCCList.list) = 0 => kept("Bcc")
            /\ \A k \in (DOMAIN old) \ NamedFields : kept(k)

\* a Message with no envelope field of its own was given a Header that has
\* them all, and custom fields
C2_Witness ==
    /\ bpc = "returned"
    /\ msg.Subject = << >> /\ msg.Sender = << >>
    /\ Len(msg.ReplyTos.list) = 0 /\ Len(msg.ToList.list) = 0
    /\ Len(msg.CCList.list) = 0 /\ Len(msg.BCCList.list) = 0
    /\ {"Subject", "From", "Reply-To", "To", "Cc", "Bcc", "X-Custom", "Received"}
         \subseteq DOMAIN pre.map
    /\ Entry(heap[res], "Subject") /= pre.map["Subject"]
    /\ Entry(heap[res], "To") = pre.map["To"]

\* C3: with Time > 0, X-Pm-Date is the rendering of Time whatever Date was;
\* Date is changed only if Time > 0 and the old Date is absent, unparsable or
\* the zero time, and then it is the rendering of Time; with Time <= 0 neither
\* Date nor X-Pm-Date is written.
C3_DateHandling ==
    Returned =>
        LET h == heap[res]
            old == pre.map
            od == HeaderDate(old)
            bad == od.err /= "nil" \/ od.zero
        IN  /\ msg.Time > 0 => Entry(h, "X-Pm-Date") = <<FormatRFC1123Z(msg.Time)>>
            /\ Entry(h, "Date") /= Entry(old, "Date") => msg.Time > 0 /\ bad
            /\ msg.Time > 0 /\ bad => Entry(h, "Date") = <<FormatRFC1123Z(msg.Time)>>
            /\ ~bad => Entry(h, "Date") = Entry(old, "Date")
            /\ msg.Time <= 0 =>
                 /\ Entry(h, "Date") = Entry(old, "Date")
                 /\ Entry(h, "X-Pm-Date") = Entry(old, "X-Pm-Date")

\* a Message with a Time was given a Header with a valid Date of another time
C3_Witness ==
    /\ bpc = "returned"
    /\ msg.Time > 0
    /\ Entry(pre.map, "Date") = <<LateDate>>
    /\ Entry(heap[res], "Date") = <<LateDate>>
    /\ Entry(heap[res], "X-Pm-Date") = <<FormatRFC1123Z(msg.Time)>>

\* C4 as stated: for a non-empty ID and any pre-existing References,
\* X-Pm-Internal-Id is ID and References holds <ID@InternalIDDomain> exactly
\* once, after the first and after a second GetHeader.
C4_TokenExactlyOnce ==
    Returned /\ msg.ID /= << >> =>
        /\ Get(heap[res], "X-Pm-Internal-Id") = msg.ID
        /\ Count(Get(heap[res], "References"), IdToken(msg.ID, InternalIDDomain)) = 1

\* C4 amended: the same, for a pre-existing References that holds ID nowhere,
\* or holds <ID@InternalIDDomain> exactly once; and a second GetHeader leaves
\* References as the first one made it.
C4_TokenOnceUnlessSubstring ==
    Returned /\ msg.ID /= << >> =>
        LET tok == IdToken(msg.ID, InternalIDDomain)
            oldRefs == Get(pre.map, "References")
            refs == Get(heap[res], "References")
        IN  /\ Get(heap[res], "X-Pm-Internal-Id") = msg.ID
            /\ (Contains(oldRefs, msg.ID) => Count(oldRefs, tok) = 1) => Count(refs, tok) = 1
            /\ bpc = "returned2" => refs = oldRefs

\* GetHeader ran a second time on a header that the first run gave the token
C4_Witness ==
    /\ bpc = "returned2"
    /\ msg.ID /= << >>
    /\ msg.ConversationID /= << >>
    /\ Count(Get(pre.map, "References"), IdToken(msg.ID, InternalIDDomain)) = 1
    /\ Count(Get(heap[res], "References"), IdToken(msg.ID, InternalIDDomain)) = 1

(***************************************************************************)
(* properties of parseHeader                                               *)
(***************************************************************************)
\* h with no field but k
OnlyField(h, k) == [x \in (DOMAIN h) \cap {k} |-> h[x]]

\* C5: parseHeader returns a nil error and a Message whose Header is the
\* input mapping; each field is what its own header value gives (Sender the
\* first From address, Time 0 unless Date parses to a non-zero time), and the
\* default when decoding or sanitizing that value failed, whatever happened
\* to the other fields.
C5_ParseNeverFails ==
    ph.pc = "done" =>
        LET h == heap[1]
            m == ph.m
            subject == DecodeHeader(Get(h, "Subject"))
            own(k) == sanitizeAddressList(OnlyField(h, k), k)
            t == HeaderDate(OnlyField(h, "Date"))
        IN  /\ ph.err = "nil" /\ ~ph.panic
            /\ m.Header = 1
            /\ m.Subject = IF subject.err = "nil" THEN subject.decoded ELSE NewMessage.Subject
            /\ m.Sender = IF own("From").err = "nil" /\ Len(own("From").addrs.list) > 0
                          THEN <<own("From").addrs.list[1]>> ELSE NewMessage.Sender
            /\ m.ReplyTos = IF own("Reply-To").err = "nil" /\ Len(own("Reply-To").addrs.list) > 0
                            THEN own("Reply-To").addrs ELSE NewMessage.ReplyTos
            /\ m.ToList = IF own("To").err = "nil" THEN own("To").addrs ELSE NewMessage.ToList
            /\ m.CCList = IF own("Cc").err = "nil" THEN own("Cc").addrs ELSE NewMessage.CCList
            /\ m.BCCList = IF own("Bcc").err = "nil" THEN own("Bcc").addrs ELSE NewMessage.BCCList
            /\ m.Time = IF t.err = "nil" /\ ~t.zero THEN t.unix ELSE 0

\* a header whose Subject and From fail to decode, whose Reply-To fails to
\* parse, whose Cc is absent and whose Date is no date, and whose To and Bcc
\* are still read
C5_Witness ==
    /\ ph.pc = "done"
    /\ DecodeHeader(Get(heap[1], "Subject")).err = "DecodeFailure"
    /\ sanitizeAddressList(heap[1], "From").err = "DecodeFailure"
    /\ sanitizeAddressList(heap[1], "Reply-To").err = "AddressParseFailure"
    /\ sanitizeAddressList(heap[1], "Cc").err = "FieldNotPresent"
    /\ HeaderDate(heap[1]).err = "ParseError"
    /\ ph.m.Subject = << >> /\ ph.m.Sender = << >> /\ ph.m.Time = 0
    /\ Len(ph.m.ToList.list) = 2
    /\ ph.m.BCCList = Addrs(<< >>) /\ Get(heap[1], "Bcc") = <<"G">>

(***************************************************************************)
(* properties of sanitizeAddressList                                       *)
(***************************************************************************)
SanDone == san.pc = "done" /\ ~san.panic

\* the first attempt on raw: decoding succeeded and the strict parse failed
StrictParseFailed(raw) ==
    /\ raw /= << >>
    /\ DecodeHeader(raw).err = "nil"
    /\ ParseAddressList(parseAddressComment(DecodeHeader(raw).decoded)).err /= "nil"

\* some "<" of s has a ">" after it
HasBracketPair(s) == \E i, j \in 1..Len(s) : i < j /\ s[i] = "<" /\ s[j] = ">"

\* the brackets of s are unbalanced, or there are none: no "<", no ">", a "<"
\* with no ">" after it, or a ">" with no "<" before it
Unbalanced(s) ==
    \/ \A i \in 1..Len(s) : s[i] /= "<"
    \/ \A i \in 1..Len(s) : s[i] /= ">"
    \/ \E i \in 1..Len(s) : s[i] = "<" /\ \A j \in (i + 1)..Len(s) : s[j] /= ">"
    \/ \E j \in 1..Len(s) : s[j] = ">" /\ \A i \in 1..(j - 1) : s[i] /= "<"

RECURSIVE BracketSpans(_)
\* the spans of s from a "<" to the next ">" after it, left to right, the
\* search for the next "<" starting after the span before
BracketSpans(s) ==
    IF ~HasBracketPair(s) THEN << >>
    ELSE LET o == CHOOSE i \in 1..Len(s) : s[i] = "<" /\ \A k \in 1..(i - 1) : s[k] /= "<"
             c == CHOOSE j \in (o + 1)..Len(s) :
                      s[j] = ">" /\ \A k \in (o + 1)..(j - 1) : s[k] /= ">"
         IN  <<SubSeq(s, o, c)>> \o BracketSpans(SubSeq(s, c + 1, Len(s)))

\* the mailbox of a span <m>, none for any other span
SpanMailbox(span) ==
    IF Len(span) = 3 /\ span[2] \in Mailboxes THEN <<span[2]>> ELSE << >>

\* the Address values of a list of addresses
AddressesOf(l) == [i \in 1..Len(l) |-> l[i].Address]

\* C6: the error is FieldNotPresent, with no addresses, exactly when the raw
\* value is empty; with a nil error the addresses are never nil.
C6_ErrorTellsOutcome ==
    SanDone =>
        /\ san.err = "FieldNotPresent" <=> san.raw = << >>
        /\ san.raw = << >> => san.addrs = NilAddrs
        /\ san.err = "nil" => ~san.addrs.nil

\* a strict parse that gave nil (an empty group) returned an empty list
C6_Witness ==
    /\ SanDone
    /\ san.raw = <<"G">>
    /\ san.err = "nil"
    /\ san.addrs = Addrs(<< >>)

\* the raw value of C7: two named bracketed mailboxes, the first name a
\* malformed encoded word, so that decoding fails
DecodeFailsRaw == <<"?", " ", "<", "a", ">", ",", " ", "N", " ", "<", "b", ">">>

\* C7 as stated: when decoding fails and the raw value has bracketed
\* mailboxes, they are returned in their order, not an error.
C7_FallbackOnDecodeFailure ==
    SanDone /\ san.raw = DecodeFailsRaw =>
        /\ san.err = "nil"
        /\ AddressesOf(san.addrs.list) = << <<"a">>, <<"b">> >>

\* C7 amended: when decoding fails the decode error is returned with no
\* addresses and no second parse; when decoding succeeds, the strict parse
\* fails and every bracketed span is a mailbox, the mailboxes are returned
\* in their order.
C7_FallbackOnParseFailure ==
    SanDone =>
        LET spans == BracketSpans(san.raw)
        IN  /\ san.raw /= << >> /\ DecodeHeader(san.raw).err /= "nil" =>
                 san.err = "DecodeFailure" /\ san.addrs = NilAddrs /\ ~san.called2
            /\ ( /\ StrictParseFailed(san.raw)
                 /\ Len(spans) > 0
                 /\ \A i \in 1..Len(spans) : SpanMailbox(spans[i]) /= << >> ) =>
                 /\ san.err = "nil"
                 /\ AddressesOf(san.addrs.list) =
                        [i \in 1..Len(spans) |-> SpanMailbox(spans[i])]

\* two bracketed mailboxes behind names the strict parse rejects came back
C7_Witness ==
    /\ SanDone
    /\ san.raw = <<"#", " ", "<", "a", ">", ",", " ", "#", " ", "<", "b", ">">>
    /\ san.called2
    /\ AddressesOf(san.addrs.list) = << <<"a">>, <<"b">> >>

\* C8 as stated: when the strict parse of a decodable, non-empty value fails
\* and the value's brackets are unbalanced or missing, AddressParseFailure is
\* returned and no addresses.
C8_UnbalancedGivesFailure ==
    SanDone /\ StrictParseFailed(san.raw) /\ Unbalanced(san.raw) =>
        san.err = "AddressParseFailure" /\ san.addrs = NilAddrs

\* C8 amended: when the strict parse of a decodable, non-empty value fails
\* and no "<" of the value has a ">" after it, the strict parse's
\* AddressParseFailure is returned and no addresses; addresses are returned
\* after a failed strict parse only from a value in which some "<" has a ">"
\* after it.
C8_NoPairGivesFailure ==
    SanDone /\ StrictParseFailed(san.raw) =>
        /\ ~HasBracketPair(san.raw) =>
             san.err = "AddressParseFailure" /\ san.addrs = NilAddrs
        /\ san.err = "nil" => HasBracketPair(san.raw)

\* a value with a "<" and a ">", in the wrong order
C8_Witness ==
    /\ SanDone
    /\ StrictParseFailed(san.raw)
    /\ Index(san.raw, "<") > LastIndex(san.raw, ">")
    /\ LastIndex(san.raw, ">") >= 0
    /\ san.err = "AddressParseFailure"

\* C9: when decoding succeeds and the strict parse fails, the second parse is
\* given the ", "-join of the raw value's bracket spans, in their order, and
\* its error and addresses are what the sanitizer returns.
C9_SecondParseArgument ==
    SanDone /\ StrictParseFailed(san.raw) /\ HasBracketPair(san.raw) =>
        LET joined == Join(BracketSpans(san.raw), <<",", " ">>)
        IN  /\ san.called2
            /\ san.arg2 = joined
            /\ san.err = ParseAddressList(joined).err
            /\ san.addrs = ParseAddressList(joined).addrs

\* spans were taken from a raw value that decoding changes inside a span
C9_Witness ==
    /\ SanDone
    /\ san.raw = <<"#", "<", "=", ">", "<", "b", ">">>
    /\ san.called2
    /\ san.arg2 = <<"<", "=", ">", ",", " ", "<", "b", ">">>

\* C10: no slice of the bracket loop is out of range; in every pass the ">"
\* is found at index 1 or later and the remainder gets shorter; the loop is
\* left only when no "<" of the remainder has a ">" after it; and a call that
\* entered the loop returns.
C10_LoopTerminates ==
    /\ [](~san.panic /\ (Len(san.addrList) > 0 => san.close >= 1))
    /\ [][ /\ (san.pc = "loop" /\ san'.pc = "loop" =>
                 Len(san'.addrStr) < Len(san.addrStr))
           /\ (san.pc = "loop" /\ san'.pc = "done" =>
                 ~HasBracketPair(san.addrStr)) ]_vars
    /\ (san.pc = "loop" ~> san.pc = "done")

\* the loop made two passes over a value with stray, repeated and unclosed brackets
C10_Witness ==
    /\ SanDone
    /\ san.raw = <<">", "#", "<", "b", ">", "<", "a", ">", "<">>
    /\ Len(san.addrList) = 2

====
